---- MODULE Spec2Model ----
(***************************************************************************)
(* Verification model of the pyquotex_integration resilience layer:        *)
(*   - PyQuotexClient       (src/pyquotex_integration/client.py)            *)
(*   - ConnectionWatchdog   (src/pyquotex_integration/watchdog.py)          *)
(*   - AsyncRequestQueue    (src/pyquotex_integration/async_queue.py)       *)
(* The program runs on one asyncio event loop: a task runs without         *)
(* interruption from one await that suspends to the next, so every action   *)
(* below is the code between two suspension points of one task.             *)
(* The modelled configuration is the non dry-run one (config.py:32), whose  *)
(* session calls may fail; the dry-run session is its failure-free case.    *)
(***************************************************************************)
EXTENDS Integers, Sequences, FiniteSets, TLC

\* ---------------------------------------------------------------- bounds
MaxAttempt == 10        \* largest attempt number the backoff is evaluated at
MaxCalls == 3           \* calls made by the application tasks in one behaviour
MaxFaults == 2          \* failing session calls in one behaviour
NumKeys == 1            \* distinct subscription keys
MaxRequests == 2        \* requests submitted in one behaviour
QueueMaxSize == 1       \* config.request_queue_maxsize of the modelled queue
reconnect_max_retries == 2  \* config.reconnect_max_retries of the watchdog

\* ------------------------------------------------------ program constants
num_workers == 3

VARIABLES
    \* PyQuotexClient
    state,              \* _state
    api,                \* _api: 0 is None, n > 0 the n-th session object
    lockOwner,          \* task inside "async with self._connection_lock"
    lockQ,              \* tasks waiting for the lock, FIFO
    subscriptions,      \* keys of _subscriptions, in insertion order
    candle_callbacks,   \* keys of _candle_callbacks
    dispatchers,        \* per watched key: the _candle_dispatcher tasks alive
    \* ConnectionWatchdog
    running,            \* _running
    consecutive_failures,
    total_reconnects,
    retry_count,        \* local of _handle_disconnect
    hookCalls,          \* invocations of on_reconnect
    \* tasks of the event loop
    pc,                 \* where each task is suspended
    todo,               \* per task: keys its current call still has to handle
    obs,                \* the last client call that returned: who, what, result
    calls, faults,      \* environment budgets used so far
    \* AsyncRequestQueue
    queue,              \* _queue: request ids, FIFO
    putQ,               \* submitters suspended in _queue.put (queue full), FIFO
    queue_running,      \* _running
    workers,            \* len(_workers): the worker tasks the queue tracks
    idle,               \* worker tasks suspended in wait_for(_queue.get())
    ended,              \* tracked worker tasks that have ended
    orphans,            \* as idle, for the worker tasks a start() created while
                        \* a stop() was awaiting the cancelled ones
    processed_count,
    failed_count,
    req,                \* every Request created so far and what happened to it
    next_id,            \* requests created so far
    ctl,                \* the task calling start() / stop()
    \* backoff evaluation
    cfg, attempt, delay

clientVars == <<state, api, lockOwner, lockQ, subscriptions, candle_callbacks,
                dispatchers>>
wdVars == <<running, consecutive_failures, total_reconnects, retry_count, hookCalls>>
taskVars == <<pc, todo, obs, calls, faults>>
queueVars == <<queue, putQ, queue_running, workers, idle, ended, orphans,
               processed_count, failed_count, req, next_id, ctl>>
backoffVars == <<cfg, attempt, delay>>
\* what the client and the watchdog never touch
otherVars == <<queueVars, backoffVars>>
\* what the request queue never touches
nonQueueVars == <<clientVars, wdVars, taskVars, backoffVars>>
vars == <<clientVars, wdVars, taskVars, queueVars, backoffVars>>

\* ------------------------------------------------------------------------
\* BackoffPolicy: ConnectionWatchdog._calculate_backoff_delay
\* A configuration is [base, mnum, mden, max]: reconnect_base_delay,
\* reconnect_exponential_base = mnum/mden, reconnect_max_delay.  A delay is
\* the exact rational <<numerator, denominator>> (the float computation is
\* exact for these values in the modelled range).
\* ------------------------------------------------------------------------
RECURSIVE Pow(_, _)
Pow(b, e) == IF e = 0 THEN 1 ELSE b * Pow(b, e - 1)

\* Python min(a, b): a unless b < a.
MinDelay(d, max) == IF max * d[2] < d[1] THEN <<max, 1>> ELSE d

CalculateBackoffDelay_OneBased(c, retry) ==
    MinDelay(<<c.base * Pow(c.mnum, retry + 1), Pow(c.mden, retry + 1)>>, c.max)

CalculateBackoffDelay(c, retry) ==
    MinDelay(<<c.base * Pow(c.mnum, retry), Pow(c.mden, retry)>>, c.max)

\* QuotexConfig is a plain dataclass: the watchdog is built with any values.
\* qmax is request_queue_maxsize; on_reconnect tells how the hook installed
\* on the watchdog ends when it is called: it returns ("ok") or it raises.
Configs ==
    [base : {1, 2, 3}, mnum : {1, 2, 3}, mden : {1, 2}, max : {1, 5, 300},
     qmax : {QueueMaxSize}, on_reconnect : {"ok"}]

DefaultConfig ==
    [base |-> 1, mnum |-> 2, mden |-> 1, max |-> 300, qmax |-> QueueMaxSize,
     on_reconnect |-> "ok"]

\* QuotexConfig.validate(): of the backoff fields only reconnect_base_delay is
\* looked at.
Validate(c) == c.base > 0

\* QuotexConfig(...) and ConnectionWatchdog(client, config): the dataclass
\* constructor and __init__ store the values; neither calls validate().
Constructible(c) == TRUE


\* ------------------------------------------------------------------------
\* Tasks of the event loop
\*   mon    the watchdog's _monitor_loop task
\*   force  a caller of ConnectionWatchdog.force_reconnect
\*   app    the application: connect / disconnect / watchdog start and stop
\*   sub    a caller of subscribe_candles / unsubscribe_candles
\* ------------------------------------------------------------------------
Tasks == {"mon", "force", "app", "sub"}
NoTask == "none"
Keys == 1..NumKeys

Range(s) == {s[i] : i \in DOMAIN s}
Remove(s, k) == SelectSeq(s, LAMBDA x : x # k)

\* A new session object is never the previous one.
NewApi(a) == (a % 2) + 1

SetPc(t, p) == pc' = [pc EXCEPT ![t] = p]
Observe(t, op, out, ret) == obs' = [task |-> t, op |-> op, out |-> out, ret |-> ret]

\* A session call that fails uses the fault budget.
Fault(failed) ==
    IF failed THEN faults < MaxFaults /\ faults' = faults + 1 ELSE faults' = faults

\* watchdog.stop has cancelled the monitor task and is awaiting it.
CancelPending == pc["app"] = "stop_wait"

MonLoopTop_Exit == "done"

\* _monitor_loop: "while self._running" after an iteration.
MonLoopTop == IF running THEN "ping_sleep" ELSE "done"

\* ------------------------------------------------------------------------
\* PyQuotexClient.connect
\* ------------------------------------------------------------------------
ReconnectSucceeded_NoReset ==
    /\ total_reconnects' = total_reconnects + 1
    /\ consecutive_failures' = consecutive_failures
    /\ hookCalls' = hookCalls + 1

ReconnectSucceeded_HookFirst ==
    /\ total_reconnects' = total_reconnects + (IF cfg.on_reconnect = "raise" THEN 0 ELSE 1)
    /\ consecutive_failures' = IF cfg.on_reconnect = "raise" THEN consecutive_failures
                                                             ELSE 0
    /\ hookCalls' = hookCalls + 1

\* Lines 162-174 / 222-233: the bookkeeping of a successful reconnection and
\* the on_reconnect hook, whose exception is caught and logged.
ReconnectSucceeded ==
    /\ total_reconnects' = total_reconnects + 1
    /\ consecutive_failures' = 0
    /\ hookCalls' = hookCalls + 1

NoReconnect == UNCHANGED <<total_reconnects, consecutive_failures, hookCalls>>

AfterConnect_OneMore(t, res) ==
    /\ running' = running
    /\ CASE t = "mon" ->
              IF res
              THEN /\ ReconnectSucceeded
                   /\ retry_count' = retry_count
                   /\ SetPc(t, MonLoopTop)
              ELSE /\ NoReconnect
                   /\ retry_count' = retry_count + 1
                   /\ SetPc(t, IF running /\ retry_count + 1 <= reconnect_max_retries
                               THEN "backoff_sleep" ELSE MonLoopTop)
         [] t = "force" ->
              /\ IF res THEN ReconnectSucceeded ELSE NoReconnect
              /\ retry_count' = retry_count
              /\ SetPc(t, "idle")
         [] OTHER ->
              /\ NoReconnect
              /\ retry_count' = retry_count
              /\ SetPc(t, "idle")

\* What the caller does with connect()'s result up to its next await.
AfterConnect(t, res) ==
    /\ running' = running
    /\ CASE t = "mon" ->
              IF res
              THEN /\ ReconnectSucceeded
                   /\ retry_count' = retry_count
                   /\ SetPc(t, MonLoopTop)
              ELSE /\ NoReconnect
                   /\ retry_count' = retry_count + 1
                   /\ SetPc(t, IF running /\ retry_count + 1 < reconnect_max_retries
                               THEN "backoff_sleep" ELSE MonLoopTop)
         [] t = "force" ->
              /\ IF res THEN ReconnectSucceeded ELSE NoReconnect
              /\ retry_count' = retry_count
              /\ SetPc(t, "idle")
         [] OTHER ->
              /\ NoReconnect
              /\ retry_count' = retry_count
              /\ SetPc(t, "idle")

ConnectResultState_KeepConnecting(out) ==
    IF out = "ok" THEN "connected" ELSE "connecting"

\* _state when connect() returns after the session call ended with `out`.
ConnectResultState(out) ==
    IF out = "ok" THEN "connected" ELSE "disconnected"

ConnectBody_NoCheck(t) ==
    \/ /\ Fault(TRUE)
       /\ state' = "disconnected"
       /\ api' = api
       /\ lockOwner' = NoTask
       /\ Observe(t, "connect", "raise_early", FALSE)
       /\ AfterConnect(t, FALSE)
    \/ /\ state' = "connecting"
       /\ api' = NewApi(api)
       /\ lockOwner' = t
       /\ SetPc(t, "conn_session")
       /\ UNCHANGED <<wdVars, obs, faults>>

\* The body of connect() once the lock is held, up to its first await.
ConnectBody(t) ==
    IF state = "connected"
    THEN /\ UNCHANGED <<state, api, faults>>
         /\ lockOwner' = NoTask
         /\ Observe(t, "connect", "none", TRUE)
         /\ AfterConnect(t, TRUE)
    ELSE \/ \* the import or the Quotex constructor raises: caught at line 90
            /\ Fault(TRUE)
            /\ state' = "disconnected"
            /\ api' = api
            /\ lockOwner' = NoTask
            /\ Observe(t, "connect", "raise_early", FALSE)
            /\ AfterConnect(t, FALSE)
         \/ \* suspended in asyncio.to_thread(self._api.connect)
            /\ state' = "connecting"
            /\ api' = NewApi(api)
            /\ lockOwner' = t
            /\ SetPc(t, "conn_session")
            /\ UNCHANGED <<wdVars, obs, faults>>

LockFree_Always == TRUE

\* asyncio.Lock.acquire without waiting: unlocked and nobody queued before us.
LockFree == lockOwner = NoTask /\ lockQ = <<>>

\* "async with self._connection_lock" of connect(): asyncio.Lock is FIFO.
CallConnect(t) ==
    IF LockFree
    THEN /\ lockQ' = lockQ
         /\ ConnectBody(t)
    ELSE /\ lockQ' = Append(lockQ, t)
         /\ SetPc(t, "conn_lockwait")
         /\ UNCHANGED <<state, api, lockOwner, wdVars, obs, faults>>

\* asyncio.to_thread(self._api.connect) returns (check true / false) or raises.
ConnectSessionDone(t) ==
    /\ pc[t] = "conn_session"
    /\ ~(t = "mon" /\ CancelPending)
    /\ \E out \in {"ok", "fail", "raise"} :
         /\ Fault(out # "ok")
         /\ state' = ConnectResultState(out)
         /\ api' = api
         /\ lockOwner' = NoTask
         /\ Observe(t, "connect", out, out = "ok")
         /\ AfterConnect(t, out = "ok")
    /\ UNCHANGED <<lockQ, subscriptions, candle_callbacks, dispatchers, todo, calls,
                   otherVars>>


\* ------------------------------------------------------------------------
\* PyQuotexClient.disconnect, _cleanup_subscriptions, unsubscribe_candles
\* ------------------------------------------------------------------------
AfterDisconnect_NoConnect(t) ==
    SetPc(t, IF t = "mon" THEN "settle" ELSE "idle")

\* What the caller does when disconnect() returns: the cycles sleep 1 s
\* (watchdog.py 158 / 219) before they call connect().
AfterDisconnect(t) ==
    SetPc(t, IF t \in {"mon", "force"} THEN "settle" ELSE "idle")

DisconnectResultState_KeepOnError(out) ==
    IF out = "raise" THEN state ELSE "disconnected"

\* _state when disconnect() returns: line 110, and line 115 after an error.
DisconnectResultState(out) ==
    IF out = "raise" THEN "disconnected" ELSE "disconnected"

\* disconnect() returns: the lock is released.
DisconnectReturn(t, out, newApi, subs, cbs) ==
    /\ state' = DisconnectResultState(out)
    /\ api' = newApi
    /\ subscriptions' = subs
    /\ candle_callbacks' = cbs
    /\ dispatchers' = dispatchers
    /\ lockOwner' = NoTask
    /\ todo' = [todo EXCEPT ![t] = <<>>]
    /\ Observe(t, "disconnect", out, TRUE)
    /\ AfterDisconnect(t)

DisconnectSuspend(t, at, keys, subs, cbs) ==
    /\ UNCHANGED <<state, api, obs>>
    /\ subscriptions' = subs
    /\ candle_callbacks' = cbs
    /\ dispatchers' = dispatchers
    /\ lockOwner' = t
    /\ todo' = [todo EXCEPT ![t] = keys]
    /\ SetPc(t, at)

\* The loop of _cleanup_subscriptions from the key Head(keys) on, with a
\* session object set (each unsubscribe_candles then awaits the session),
\* followed by lines 106-107 of disconnect.
CleanupFrom(t, keys, subs, cbs) ==
    IF keys = <<>>
    THEN DisconnectSuspend(t, "disc_close", <<>>, subs, cbs)
    ELSE IF Head(keys) \notin Range(subs)
         THEN \* KeyError at line 476, caught at line 113
              DisconnectReturn(t, "raise", api, subs, cbs)
         ELSE DisconnectSuspend(t, "disc_cleanup", keys, subs, cbs)

\* The body of disconnect() once the lock is held, up to its first await.
DisconnectBody(t) ==
    /\ faults' = faults
    /\ IF state = "disconnected"
       THEN /\ UNCHANGED <<state, api, subscriptions, candle_callbacks, dispatchers, todo>>
            /\ lockOwner' = NoTask
            /\ Observe(t, "disconnect", "noop", TRUE)
            /\ AfterDisconnect(t)
       ELSE IF api = 0
            THEN \* no session object: nothing is awaited, lines 104-110 run at once
                 DisconnectReturn(t, "ok", 0, <<>>,
                                  candle_callbacks \ Range(subscriptions))
            ELSE CleanupFrom(t, subscriptions, subscriptions, candle_callbacks)

CallDisconnect(t) ==
    /\ UNCHANGED wdVars
    /\ IF LockFree
       THEN /\ lockQ' = lockQ
            /\ DisconnectBody(t)
       ELSE /\ lockQ' = Append(lockQ, t)
            /\ SetPc(t, "disc_lockwait")
            /\ UNCHANGED <<state, api, lockOwner, subscriptions, candle_callbacks, dispatchers,
                           todo, obs, faults>>

\* The lock is released and t is the first waiter: it resumes inside the body.
LockGranted(t) ==
    /\ lockOwner = NoTask
    /\ lockQ # <<>>
    /\ Head(lockQ) = t
    /\ ~(t = "mon" /\ CancelPending)
    /\ lockQ' = Tail(lockQ)
    /\ \/ /\ pc[t] = "conn_lockwait"
          /\ ConnectBody(t)
          /\ UNCHANGED <<subscriptions, candle_callbacks, dispatchers, todo>>
       \/ /\ pc[t] = "disc_lockwait"
          /\ DisconnectBody(t)
          /\ UNCHANGED wdVars
    /\ UNCHANGED <<calls, otherVars>>

\* unsubscribe_candles inside the cleanup: stop_candles_stream returned or raised
\* (logged at line 428), then lines 430-432, then the loop goes on.
DisconnectCleanupDone(t) ==
    /\ pc[t] = "disc_cleanup"
    /\ ~(t = "mon" /\ CancelPending)
    /\ \E failed \in BOOLEAN :
         /\ Fault(failed)
         /\ LET k == Head(todo[t]) IN
            IF k \notin Range(subscriptions)
            THEN \* KeyError at line 430, caught at line 113
                 DisconnectReturn(t, "raise", api, subscriptions, candle_callbacks)
            ELSE CleanupFrom(t, Tail(todo[t]), Remove(subscriptions, k),
                             candle_callbacks \ {k})
    /\ UNCHANGED <<lockQ, wdVars, calls, otherVars>>

\* asyncio.to_thread(self._api.close) returned or raised.
DisconnectCloseDone(t) ==
    /\ pc[t] = "disc_close"
    /\ ~(t = "mon" /\ CancelPending)
    /\ \E failed \in BOOLEAN :
         /\ Fault(failed)
         /\ DisconnectReturn(t, IF failed THEN "raise" ELSE "ok",
                             IF failed THEN api ELSE 0,
                             subscriptions, candle_callbacks)
    /\ UNCHANGED <<lockQ, wdVars, calls, otherVars>>


\* ------------------------------------------------------------------------
\* PyQuotexClient.subscribe_candles / unsubscribe_candles called by task sub
\* (neither takes the connection lock)
\* ------------------------------------------------------------------------
\* asyncio.create_task(self._candle_dispatcher(sub_key)), line 395.  A
\* dispatcher task writes no field of the client; the tasks are counted for
\* the keys in the domain of `dispatchers`, which is all keys where the
\* dispatchers take their steps (SpecCandles) and none elsewhere.
StartDispatcher(k) ==
    IF k \in DOMAIN dispatchers THEN [dispatchers EXCEPT ![k] = @ + 1] ELSE dispatchers

SubReturn(out, ret) ==
    /\ Observe("sub", IF pc["sub"] = "unsub_stream" THEN "unsubscribe" ELSE "subscribe",
               out, ret)
    /\ SetPc("sub", "idle")
    /\ todo' = [todo EXCEPT !["sub"] = <<>>]

SubscribeCall(k) ==
    /\ pc["sub"] = "idle"
    /\ calls < MaxCalls
    /\ calls' = calls + 1
    /\ IF state # "connected"
       THEN /\ Observe("sub", "subscribe", "not_connected", FALSE)
            /\ UNCHANGED <<candle_callbacks, pc, todo>>
       ELSE /\ candle_callbacks' = candle_callbacks \cup {k}
            /\ IF k \notin Range(subscriptions)
               THEN \* suspended in asyncio.to_thread(start_candles_stream)
                    /\ SetPc("sub", "sub_stream")
                    /\ todo' = [todo EXCEPT !["sub"] = <<k>>]
                    /\ obs' = obs
               ELSE /\ Observe("sub", "subscribe", "ok", TRUE)
                    /\ UNCHANGED <<pc, todo>>
    /\ UNCHANGED <<state, api, lockOwner, lockQ, subscriptions, dispatchers, wdVars,
                   faults, otherVars>>

SubscribeStreamDone ==
    /\ pc["sub"] = "sub_stream"
    /\ \E failed \in BOOLEAN :
         /\ Fault(failed)
         /\ LET k == Head(todo["sub"]) IN
            IF failed
            THEN \* caught at line 400; the callback stays registered
                 /\ subscriptions' = subscriptions
                 /\ dispatchers' = dispatchers
                 /\ SubReturn("raise", FALSE)
            ELSE \* lines 389-395: the entry is written and a dispatcher task
                 \* is created
                 /\ subscriptions' = IF k \in Range(subscriptions)
                                     THEN subscriptions
                                     ELSE Append(subscriptions, k)
                 /\ dispatchers' = StartDispatcher(k)
                 /\ SubReturn("ok", TRUE)
    /\ UNCHANGED <<state, api, lockOwner, lockQ, candle_callbacks, wdVars, calls,
                   otherVars>>

UnsubscribeCall(k) ==
    /\ pc["sub"] = "idle"
    /\ calls < MaxCalls
    /\ calls' = calls + 1
    /\ IF k \notin Range(subscriptions)
       THEN /\ Observe("sub", "unsubscribe", "none", FALSE)
            /\ UNCHANGED <<subscriptions, candle_callbacks, pc, todo>>
       ELSE IF api # 0
            THEN \* suspended in asyncio.to_thread(stop_candles_stream)
                 /\ SetPc("sub", "unsub_stream")
                 /\ todo' = [todo EXCEPT !["sub"] = <<k>>]
                 /\ UNCHANGED <<subscriptions, candle_callbacks, obs>>
            ELSE /\ subscriptions' = Remove(subscriptions, k)
                 /\ candle_callbacks' = candle_callbacks \ {k}
                 /\ Observe("sub", "unsubscribe", "ok", TRUE)
                 /\ UNCHANGED <<pc, todo>>
    /\ UNCHANGED <<state, api, lockOwner, lockQ, dispatchers, wdVars, faults, otherVars>>

UnsubscribeStreamDone ==
    /\ pc["sub"] = "unsub_stream"
    /\ \E failed \in BOOLEAN :
         /\ Fault(failed)
         /\ LET k == Head(todo["sub"]) IN
            IF k \notin Range(subscriptions)
            THEN \* KeyError at line 430 goes to the caller
                 /\ UNCHANGED <<subscriptions, candle_callbacks>>
                 /\ SubReturn("raise", FALSE)
            ELSE /\ subscriptions' = Remove(subscriptions, k)
                 /\ candle_callbacks' = candle_callbacks \ {k}
                 /\ SubReturn("ok", TRUE)
    /\ UNCHANGED <<state, api, lockOwner, lockQ, dispatchers, wdVars, calls, otherVars>>

\* ------------------------------------------------------------------------
\* PyQuotexClient._candle_dispatcher
\* ------------------------------------------------------------------------
\* _subscriptions[k]["active"] is False: an unsubscribe_candles(k) has cleared
\* it (line 418) and is suspended in stop_candles_stream, before it deletes
\* the entry (line 430).
Inactive(k) ==
    \E t \in Tasks : /\ pc[t] \in {"unsub_stream", "disc_cleanup"}
                     /\ todo[t] # <<>>
                     /\ Head(todo[t]) = k

\* The loop test of line 441, which a dispatcher evaluates each time its
\* sleep ends.
DispatcherGoesOn(k) == k \in Range(subscriptions) /\ ~Inactive(k)

\* A dispatcher of key k wakes up and finds the loop test false: its task
\* ends.  (One that finds it true dispatches the latest candle and sleeps
\* again, which changes nothing here.)
CandleDispatcherExit(k) ==
    /\ k \in DOMAIN dispatchers
    /\ dispatchers[k] > 0
    /\ ~DispatcherGoesOn(k)
    /\ dispatchers' = [dispatchers EXCEPT ![k] = @ - 1]
    /\ UNCHANGED <<state, api, lockOwner, lockQ, subscriptions, candle_callbacks, wdVars,
                   taskVars, otherVars>>

\* ------------------------------------------------------------------------
\* ConnectionWatchdog
\* ------------------------------------------------------------------------
ProbeFailed_NoSequence ==
    /\ consecutive_failures' = consecutive_failures + 1
    /\ SetPc("mon", MonLoopTop)
    /\ UNCHANGED <<running, total_reconnects, retry_count, hookCalls>>

ProbeFailed_Ignored ==
    /\ SetPc("mon", MonLoopTop)
    /\ UNCHANGED wdVars

ProbeFailed_KeepsCount ==
    /\ consecutive_failures' = consecutive_failures + 1
    /\ retry_count' = retry_count
    /\ SetPc("mon", IF running /\ retry_count < reconnect_max_retries
                    THEN "backoff_sleep" ELSE MonLoopTop)
    /\ UNCHANGED <<running, total_reconnects, hookCalls>>

\* _monitor_loop lines 105-113 and _handle_disconnect up to its first sleep.
ProbeFailed ==
    /\ consecutive_failures' = consecutive_failures + 1
    /\ retry_count' = 0
    /\ SetPc("mon", IF running /\ 0 < reconnect_max_retries
                    THEN "backoff_sleep" ELSE MonLoopTop)
    /\ UNCHANGED <<running, total_reconnects, hookCalls>>

ProbeAllowed_Always == TRUE

\* _check_connection line 128 and client.ping line 124.
ProbeAllowed == state = "connected"

TickDue_AnySleep == pc["mon"] \in {"ping_sleep", "backoff_sleep"}

\* _monitor_loop line 89: the monitor is in its ping-interval sleep, the one
\* await of the loop from which it goes on to _check_connection.
TickDue == pc["mon"] = "ping_sleep"

\* The ping-interval sleep ends: _check_connection.
MonTick ==
    /\ TickDue
    /\ ~CancelPending
    /\ IF ~running
       THEN /\ SetPc("mon", "done")
            /\ UNCHANGED <<wdVars, obs>>
       ELSE IF ProbeAllowed
            THEN \* suspended in wait_for(to_thread(get_balance))
                 /\ SetPc("mon", "pinging")
                 /\ UNCHANGED <<wdVars, obs>>
            ELSE /\ Observe("mon", "probe", "none", FALSE)
                 /\ ProbeFailed
    /\ UNCHANGED <<clientVars, todo, calls, faults, otherVars>>

\* The session ping returned a balance, or None / timed out / raised.
MonPingDone ==
    /\ pc["mon"] = "pinging"
    /\ ~CancelPending
    /\ \E ok \in BOOLEAN :
         /\ Fault(~ok)
         /\ Observe("mon", "probe", IF ok THEN "ok" ELSE "fail", ok)
         /\ IF ok
            THEN /\ consecutive_failures' = 0
                 /\ SetPc("mon", MonLoopTop)
                 /\ UNCHANGED <<running, total_reconnects, retry_count, hookCalls>>
            ELSE ProbeFailed
    /\ UNCHANGED <<clientVars, todo, calls, otherVars>>

\* The backoff sleep of _handle_disconnect ends: line 153, then disconnect().
MonBackoffDone ==
    /\ pc["mon"] = "backoff_sleep"
    /\ ~CancelPending
    /\ IF ~running
       THEN /\ SetPc("mon", MonLoopTop)
            /\ UNCHANGED <<clientVars, wdVars, todo, obs, faults>>
       ELSE CallDisconnect("mon")
    /\ UNCHANGED <<calls, otherVars>>

\* The settle sleep ends (line 158 / 219): connect().
SettleDone(t) ==
    /\ pc[t] = "settle"
    /\ ~(t = "mon" /\ CancelPending)
    /\ CallConnect(t)
    /\ UNCHANGED <<subscriptions, candle_callbacks, dispatchers, todo, calls, otherVars>>

\* force_reconnect() is called: disconnect().
ForceReconnect ==
    /\ pc["force"] = "idle"
    /\ calls < MaxCalls
    /\ calls' = calls + 1
    /\ CallDisconnect("force")
    /\ UNCHANGED otherVars

\* watchdog.start()
WatchdogStart ==
    /\ pc["app"] = "idle"
    /\ calls < MaxCalls
    /\ calls' = calls + 1
    /\ IF running
       THEN UNCHANGED <<running, pc>>
       ELSE /\ running' = TRUE
            /\ SetPc("mon", "ping_sleep")
    /\ UNCHANGED <<clientVars, consecutive_failures, total_reconnects, retry_count,
                   hookCalls, todo, obs, faults, otherVars>>

\* watchdog.stop() up to "await self._task"
WatchdogStop ==
    /\ pc["app"] = "idle"
    /\ calls < MaxCalls
    /\ calls' = calls + 1
    /\ IF ~running
       THEN UNCHANGED <<running, pc>>
       ELSE /\ running' = FALSE
            /\ SetPc("app", "stop_wait")
    /\ UNCHANGED <<clientVars, consecutive_failures, total_reconnects, retry_count,
                   hookCalls, todo, obs, faults, otherVars>>

\* The cancelled monitor task gets CancelledError at the await it is suspended
\* on; no handler of connect / disconnect / _handle_disconnect catches it, the
\* "async with" releases the lock, _monitor_loop breaks at line 116.
MonCancelled ==
    /\ CancelPending
    /\ pc["mon"] \notin {"none", "done"}
    /\ SetPc("mon", "done")
    /\ lockOwner' = IF lockOwner = "mon" THEN NoTask ELSE lockOwner
    /\ lockQ' = Remove(lockQ, "mon")
    /\ todo' = [todo EXCEPT !["mon"] = <<>>]
    /\ UNCHANGED <<state, api, subscriptions, candle_callbacks, dispatchers, wdVars, obs, calls,
                   faults, otherVars>>

\* "await self._task" of stop() returns.
WatchdogStopReturn ==
    /\ pc["app"] = "stop_wait"
    /\ pc["mon"] \in {"none", "done"}
    /\ SetPc("app", "idle")
    /\ UNCHANGED <<clientVars, wdVars, todo, obs, calls, faults, otherVars>>

\* The application calls client.connect() / client.disconnect().
AppConnect ==
    /\ pc["app"] = "idle"
    /\ calls < MaxCalls
    /\ calls' = calls + 1
    /\ CallConnect("app")
    /\ UNCHANGED <<subscriptions, candle_callbacks, dispatchers, todo, otherVars>>

AppDisconnect ==
    /\ pc["app"] = "idle"
    /\ calls < MaxCalls
    /\ calls' = calls + 1
    /\ CallDisconnect("app")
    /\ UNCHANGED otherVars

\* ------------------------------------------------------------------------
\* AsyncRequestQueue
\* The worker tasks run the same loop and differ only in the Request they
\* hold (worker_id is used in log messages only), so the pool is kept as the
\* number of workers at each await and, per Request, the await its worker is at.
\* A Request is [st, cb, fut, built, cbCalls]:
\*   st       "unused"
\*            "putting"   its submitter is suspended in _queue.put (queue full)
\*            "rejected"  the put timed out
\*            "queued"    in _queue
\*            "process"   dequeued, its worker is suspended in the client call
\*            "callback"  its worker is suspended in "await request.callback"
\*            "finished"  its worker ran lines 342-359 for it
\*            "dropped"   its worker ended while holding it
\*   cb       its callback: "none", "sync" or "async" (a coroutine function)
\*   fut      its future: "none", "pending", "done" (set_result) or "cancelled"
\*   built    Responses the workers built for it
\*   cbCalls  times its callback was invoked
\*   ret      what submit_request gave its caller: "none" while it has not
\*            returned, "id" the request id, "response" the worker's
\*            Response, "raised" an asyncio.TimeoutError, or the error text of
\*            the failed Response built at lines 181-186
\*   op       how the client call of the last Response built for it ended:
\*            "pending" before, then one of Outcomes
\*   success  the success field of that Response ("none" before)
\*   cbr      how its callback ended: "none", "ok" or "raise"
\*   orph     whether the worker that took it is one of `orphans`
\*   after    the Requests still waiting in the queue whose submit_request
\*            call had returned when this one was submitted: those a task
\*            that submits its Requests one after the other can have
\*            submitted before it
\* ------------------------------------------------------------------------
RequestIds == 1..MaxRequests
NoRequest ==
    [st |-> "unused", cb |-> "none", fut |-> "none", built |-> 0, cbCalls |-> 0,
     ret |-> "none", op |-> "pending", success |-> "none", cbr |-> "none",
     after |-> {}, orph |-> FALSE]

TimeoutResult_Silent(wait) == IF wait THEN "Queue full" ELSE "id"

\* Lines 178-187: the handler of asyncio.TimeoutError, which both wait_for
\* calls of the try block reach.
TimeoutResult(wait) == IF wait THEN "Queue full" ELSE "raised"

\* Lines 169-176 once the put has succeeded: return the id, or await the future.
AcceptedResult(wait) == IF wait THEN "none" ELSE "id"

Held == {id \in RequestIds : req[id].st \in {"process", "callback"}}
Accepted == {id \in RequestIds :
                req[id].st \in {"queued", "process", "callback", "finished", "dropped"}}

\* The Requests whose submit_request call has returned or raised.
Returned == {id \in RequestIds : req[id].ret # "none"}

\* asyncio.Queue.full()
QueueFull == Len(queue) >= cfg.qmax

\* stop() has cancelled the worker tasks and is awaiting them.
WorkersCancelled == ctl = "stop_wait"

\* The worker holding Request id has been cancelled by stop(): the workers
\* that a start() created after the cancellation have not.
Cancelled(id) == WorkersCancelled /\ ~req[id].orph

\* submit_request up to its first await that suspends.
SubmitRequest(cb, wait) ==
    /\ next_id < MaxRequests
    /\ next_id' = next_id + 1
    /\ LET id == next_id + 1
           r == [NoRequest EXCEPT !.cb = cb,
                                  !.fut = IF wait THEN "pending" ELSE "none",
                                  !.after = Returned \cap Range(queue)]
       IN IF ~QueueFull
          THEN /\ queue' = Append(queue, id)
               /\ putQ' = putQ
               /\ req' = [req EXCEPT ![id] = [r EXCEPT !.st = "queued",
                                                      !.ret = AcceptedResult(wait)]]
          ELSE /\ queue' = queue
               /\ putQ' = Append(putQ, id)
               /\ req' = [req EXCEPT ![id] = [r EXCEPT !.st = "putting"]]
    /\ UNCHANGED <<queue_running, workers, idle, ended, orphans, processed_count, failed_count,
                   ctl, nonQueueVars>>

\* A slot is free: the first suspended put resumes and enqueues.
PutResume ==
    /\ putQ # <<>>
    /\ ~QueueFull
    /\ queue' = Append(queue, Head(putQ))
    /\ putQ' = Tail(putQ)
    /\ req' = [req EXCEPT ![Head(putQ)].st = "queued",
                           ![Head(putQ)].ret = AcceptedResult(req[Head(putQ)].fut # "none")]
    /\ UNCHANGED <<queue_running, workers, idle, ended, orphans, processed_count, failed_count,
                   next_id, ctl, nonQueueVars>>

\* wait_for(self._queue.put(request), 1.0) times out: lines 178-187.
PutTimeout(id) ==
    /\ req[id].st = "putting"
    /\ putQ' = Remove(putQ, id)
    /\ req' = [req EXCEPT ![id].st = "rejected",
                           ![id].ret = TimeoutResult(req[id].fut # "none"),
                           ![id].after = {}]
    /\ UNCHANGED <<queue, queue_running, workers, idle, ended, orphans, processed_count,
                   failed_count, next_id, ctl, nonQueueVars>>

\* wait_for(future, callback_timeout) times out: it cancels the future.
ResultTimeout(id) ==
    /\ id \in Accepted
    /\ req[id].fut = "pending"
    /\ req' = [req EXCEPT ![id].fut = "cancelled", ![id].ret = TimeoutResult(TRUE)]
    /\ UNCHANGED <<queue, putQ, queue_running, workers, idle, ended, orphans, processed_count,
                   failed_count, next_id, ctl, nonQueueVars>>

\* asyncio.Queue.get(): the item at the head, and what stays in the queue.
Dequeue_Lifo(q) == [item |-> q[Len(q)], rest |-> SubSeq(q, 1, Len(q) - 1)]

Dequeue(q) == [item |-> Head(q), rest |-> Tail(q)]

\* The Requests once Request id has left the queue.
Taken(id) == [i \in RequestIds |-> [req[i] EXCEPT !.after = @ \ {id}]]

\* A worker is suspended in its client call or callback at the end of the
\* step.  `orph` tells whether it is one of `orphans`, `wasIdle` whether it
\* came from queue.get() in this same step.
WorkerBusy(orph, wasIdle) ==
    /\ idle' = IF wasIdle /\ ~orph THEN idle - 1 ELSE idle
    /\ orphans' = IF wasIdle /\ orph THEN orphans - 1 ELSE orphans
    /\ ended' = ended

WorkerLoops_Once(orph, wasIdle) ==
    /\ idle' = IF wasIdle /\ ~orph THEN idle - 1 ELSE idle
    /\ orphans' = IF wasIdle /\ orph THEN orphans - 1 ELSE orphans
    /\ ended' = IF orph THEN ended ELSE ended + 1

\* The loop test of line 333 after a Request: the worker waits in queue.get()
\* again, or its task ends.
WorkerLoops(orph, wasIdle) ==
    IF queue_running
    THEN /\ idle' = IF ~wasIdle /\ ~orph THEN idle + 1 ELSE idle
         /\ orphans' = IF ~wasIdle /\ orph THEN orphans + 1 ELSE orphans
         /\ ended' = ended
    ELSE /\ idle' = IF wasIdle /\ ~orph THEN idle - 1 ELSE idle
         /\ orphans' = IF wasIdle /\ orph THEN orphans - 1 ELSE orphans
         /\ ended' = IF orph THEN ended ELSE ended + 1

FinishRequest_Unguarded(id, r, wasIdle) ==
    /\ req' = [Taken(id) EXCEPT ![id] =
                  [r EXCEPT !.st = "finished",
                            !.fut = IF r.fut = "none" THEN "none" ELSE "done",
                            !.ret = IF r.fut = "pending" THEN "response" ELSE r.ret]]
    /\ WorkerLoops(r.orph, wasIdle)

\* _worker_loop lines 356-359 for Request r, then the loop test.
FinishRequest(id, r, wasIdle) ==
    /\ req' = [Taken(id) EXCEPT ![id] =
                  [r EXCEPT !.st = "finished",
                            !.fut = IF r.fut = "pending" THEN "done" ELSE r.fut,
                            !.ret = IF r.fut = "pending" THEN "response" ELSE r.ret]]
    /\ WorkerLoops(r.orph, wasIdle)

\* The success field of the Response _process_request builds: True whenever the
\* client call returned, whatever it returned (line 437), False only in the
\* except branch (lines 441-448) and for an unknown type (line 430).
ResponseSuccess(out) == IF out = "raise" THEN "false" ELSE "true"

\* The worker's bookkeeping of a Response, lines 342-345.
CountResponse_Both(success) ==
    /\ processed_count' = processed_count + 1
    /\ failed_count' = failed_count + 1

CountResponse_FailuresUncounted(success) ==
    /\ processed_count' = processed_count + (IF success = "true" THEN 1 ELSE 0)
    /\ failed_count' = failed_count

CountResponse(success) ==
    IF success = "true"
    THEN /\ processed_count' = processed_count + 1
         /\ failed_count' = failed_count
    ELSE /\ processed_count' = processed_count
         /\ failed_count' = failed_count + 1

\* How a callback ends: it returns, or it raises an Exception that lines
\* 353-354 catch and log.
CallbackEnds == {"ok", "raise"}

\* The callback of Request r ended with c: an Exception it raised is caught
\* and logged at lines 353-354, and in both cases the worker goes on with
\* lines 356-359.
AfterCallback_Escapes(id, r, c, wasIdle) ==
    IF c = "raise"
    THEN /\ req' = [Taken(id) EXCEPT ![id] = [r EXCEPT !.st = "finished", !.cbr = c]]
         /\ WorkerLoops(r.orph, wasIdle)
    ELSE FinishRequest(id, [r EXCEPT !.cbr = c], wasIdle)

AfterCallback(id, r, c, wasIdle) == FinishRequest(id, [r EXCEPT !.cbr = c], wasIdle)

\* _process_request returned its Response: lines 342-355.
Respond(id, out, wasIdle, orph) ==
    /\ CountResponse(ResponseSuccess(out))
    /\ LET r == [req[id] EXCEPT !.built = @ + 1, !.op = out,
                                !.success = ResponseSuccess(out), !.orph = orph] IN
       CASE r.cb = "none" -> FinishRequest(id, r, wasIdle)
         [] r.cb = "sync" ->
              \E c \in CallbackEnds :
                  AfterCallback(id, [r EXCEPT !.cbCalls = @ + 1], c, wasIdle)
         [] r.cb = "async" ->
              \* suspended in "await request.callback(response)"
              /\ req' = [Taken(id) EXCEPT ![id] = [r EXCEPT !.cbCalls = @ + 1,
                                                      !.st = "callback"]]
              /\ WorkerBusy(orph, wasIdle)

\* The outcomes of the client call of _process_request: it returns data, it
\* returns None / False (for instance the client is not connected), it raises.
Outcomes == {"data", "none", "raise"}

\* queue.get() returns a Request to a waiting worker; _process_request calls
\* the client, which suspends in the session call or returns without suspending.
WorkerGet ==
    /\ queue # <<>>
    /\ queue' = Dequeue(queue).rest
    /\ \E orph \in BOOLEAN :
         /\ IF orph THEN orphans > 0 ELSE idle > 0 /\ ~WorkersCancelled
         /\ LET id == Dequeue(queue).item IN
            \/ /\ req' = [Taken(id) EXCEPT ![id].st = "process", ![id].orph = orph]
               /\ WorkerBusy(orph, TRUE)
               /\ UNCHANGED <<processed_count, failed_count>>
            \/ \E out \in Outcomes : Respond(id, out, TRUE, orph)
    /\ UNCHANGED <<putQ, queue_running, workers, next_id, ctl, nonQueueVars>>

\* The client call of _process_request ends.
WorkerProcessDone(id) ==
    /\ req[id].st = "process"
    /\ ~Cancelled(id)
    /\ \E out \in Outcomes : Respond(id, out, FALSE, req[id].orph)
    /\ UNCHANGED <<queue, putQ, queue_running, workers, next_id, ctl, nonQueueVars>>

\* The awaited callback returns or raises (caught at line 353).
WorkerCallbackDone(id) ==
    /\ req[id].st = "callback"
    /\ ~Cancelled(id)
    /\ \E c \in CallbackEnds : AfterCallback(id, req[id], c, FALSE)
    /\ UNCHANGED <<queue, putQ, queue_running, workers, processed_count, failed_count,
                   next_id, ctl, nonQueueVars>>

\* A cancelled worker gets CancelledError at the await it is suspended on.
\* In queue.get(): line 363 breaks the loop.
WorkerCancelledIdle ==
    /\ WorkersCancelled
    /\ idle > 0
    /\ idle' = idle - 1
    /\ ended' = ended + 1
    /\ UNCHANGED <<queue, putQ, queue_running, workers, orphans, processed_count,
                   failed_count, req, next_id, ctl, nonQueueVars>>

\* In the client call or in the callback: neither _process_request (except
\* Exception) nor the callback handler (except Exception) catches
\* CancelledError, line 363 breaks the loop, and the Request goes with the task.
WorkerCancelledBusy(id) ==
    /\ id \in Held
    /\ Cancelled(id)
    /\ req' = [req EXCEPT ![id].st = "dropped"]
    /\ ended' = ended + 1
    /\ UNCHANGED <<queue, putQ, queue_running, workers, idle, orphans, processed_count,
                   failed_count, next_id, ctl, nonQueueVars>>

\* AsyncRequestQueue.start finds _running set: lines 104-106.
StartIsNoOp_Never == FALSE

StartIsNoOp == queue_running

\* AsyncRequestQueue.start, called by the task that also calls stop().
QueueStart ==
    /\ ctl = "idle"
    /\ IF StartIsNoOp
       THEN UNCHANGED <<queue_running, workers, idle>>
       ELSE /\ queue_running' = TRUE
            /\ workers' = workers + num_workers
            /\ idle' = idle + num_workers
    /\ UNCHANGED <<queue, putQ, ended, orphans, processed_count, failed_count, req,
                   next_id, ctl, nonQueueVars>>

\* AsyncRequestQueue.start, called by another task while stop() is suspended
\* in gather: _running is False again, so new worker tasks are created and
\* appended to the list that stop() is about to clear.  Not more than once
\* while such workers are alive.
QueueStartOther ==
    /\ ctl = "stop_wait"
    /\ orphans = 0
    /\ IF StartIsNoOp
       THEN UNCHANGED <<queue_running, workers, orphans>>
       ELSE /\ queue_running' = TRUE
            /\ workers' = workers + num_workers
            /\ orphans' = num_workers
    /\ UNCHANGED <<queue, putQ, idle, ended, processed_count, failed_count, req,
                   next_id, ctl, nonQueueVars>>

\* AsyncRequestQueue.stop up to "await asyncio.gather(...)", which does not
\* suspend when the list of workers is empty.
QueueStop ==
    /\ ctl = "idle"
    /\ IF ~queue_running
       THEN UNCHANGED <<queue_running, ctl>>
       ELSE /\ queue_running' = FALSE
            /\ ctl' = IF workers = 0 THEN "idle" ELSE "stop_wait"
    /\ UNCHANGED <<queue, putQ, workers, idle, ended, orphans, processed_count,
                   failed_count, req, next_id, nonQueueVars>>

QueueStopReturn_ClearsQueue ==
    /\ ctl = "stop_wait"
    /\ idle = 0
    /\ \A id \in Held : req[id].orph
    /\ workers' = 0
    /\ ended' = 0
    /\ ctl' = "idle"
    /\ queue' = <<>>
    /\ UNCHANGED <<putQ, queue_running, idle, orphans, processed_count,
                   failed_count, req, next_id, nonQueueVars>>

\* gather returns once every cancelled worker task has ended: lines 127-129.
QueueStopReturn ==
    /\ ctl = "stop_wait"
    /\ idle = 0
    /\ \A id \in Held : req[id].orph
    /\ workers' = 0
    /\ ended' = 0
    /\ ctl' = "idle"
    /\ UNCHANGED <<queue, putQ, queue_running, idle, orphans, processed_count,
                   failed_count, req, next_id, nonQueueVars>>

\* wait_for(self._queue.get(), 1.0) of a worker that nobody cancelled times
\* out (line 361) and the loop test of line 333 finds _running False: the
\* task ends.
WorkerGetTimeout ==
    /\ orphans > 0
    /\ ~queue_running
    /\ orphans' = orphans - 1
    /\ UNCHANGED <<queue, putQ, queue_running, workers, idle, ended, processed_count,
                   failed_count, req, next_id, ctl, nonQueueVars>>

\* ------------------------------------------------------------------------
\* Specification of the client and the watchdog
\* ------------------------------------------------------------------------
InitBackoffIdle ==
    /\ cfg = DefaultConfig
    /\ attempt = 0
    /\ delay = CalculateBackoffDelay(DefaultConfig, 0)

InitClient ==
    /\ state = "disconnected"
    /\ api = 0
    /\ lockOwner = NoTask
    /\ lockQ = <<>>
    /\ subscriptions = <<>>
    /\ candle_callbacks = {}
    /\ dispatchers = [k \in {} |-> 0]
    /\ running = FALSE
    /\ consecutive_failures = 0
    /\ total_reconnects = 0
    /\ retry_count = 0
    /\ hookCalls = 0
    /\ pc = [t \in Tasks |-> IF t = "mon" THEN "none" ELSE "idle"]
    /\ todo = [t \in Tasks |-> <<>>]
    /\ obs = [task |-> NoTask, op |-> "none", out |-> "none", ret |-> FALSE]
    /\ calls = 0
    /\ faults = 0

InitQueue ==
    /\ queue = <<>>
    /\ putQ = <<>>
    /\ queue_running = FALSE
    /\ workers = 0
    /\ idle = 0
    /\ ended = 0
    /\ orphans = 0
    /\ processed_count = 0
    /\ failed_count = 0
    /\ req = [id \in RequestIds |-> NoRequest]
    /\ next_id = 0
    /\ ctl = "idle"

Init == InitClient /\ InitQueue /\ InitBackoffIdle

Next ==
    \/ AppConnect
    \/ AppDisconnect
    \/ \E t \in Tasks : ConnectSessionDone(t)
    \/ \E t \in Tasks : LockGranted(t)
    \/ \E t \in Tasks : DisconnectCleanupDone(t)
    \/ \E t \in Tasks : DisconnectCloseDone(t)
    \/ \E k \in Keys : SubscribeCall(k)
    \/ SubscribeStreamDone
    \/ \E k \in Keys : UnsubscribeCall(k)
    \/ UnsubscribeStreamDone
    \/ WatchdogStart
    \/ WatchdogStop
    \/ WatchdogStopReturn
    \/ MonCancelled
    \/ MonTick
    \/ MonPingDone
    \/ MonBackoffDone
    \/ \E t \in {"mon", "force"} : SettleDone(t)
    \/ ForceReconnect

Spec == Init /\ [][Next]_vars

\* The client and the watchdog with an on_reconnect hook that returns, or
\* with one that raises whenever it is called.
InitHook ==
    /\ InitClient
    /\ InitQueue
    /\ cfg \in {[DefaultConfig EXCEPT !.on_reconnect = h] : h \in {"ok", "raise"}}
    /\ attempt = 0
    /\ delay = CalculateBackoffDelay(DefaultConfig, 0)

SpecHook == InitHook /\ [][Next]_vars


\* The client and the watchdog under the event loop's scheduling: a task that
\* can run does run (asyncio runs its ready callbacks in FIFO order), and a
\* session call in a worker thread returns.
MonStep ==
    \/ MonTick
    \/ MonPingDone
    \/ MonBackoffDone
    \/ MonCancelled
    \/ SettleDone("mon")
    \/ ConnectSessionDone("mon")
    \/ LockGranted("mon")
    \/ DisconnectCleanupDone("mon")
    \/ DisconnectCloseDone("mon")

\* The steps that resume a task other than the monitor once it was called.
CallerStep(t) ==
    \/ t = "force" /\ SettleDone(t)
    \/ ConnectSessionDone(t)
    \/ LockGranted(t)
    \/ DisconnectCleanupDone(t)
    \/ DisconnectCloseDone(t)
    \/ t = "app" /\ WatchdogStopReturn

\* The steps of Next but for unsubscribe_candles() called by the application:
\* it neither takes the lock nor assigns _state, and disconnect() makes the
\* same call for every subscription it finds.
NextLive ==
    \/ AppConnect
    \/ AppDisconnect
    \/ \E t \in Tasks : ConnectSessionDone(t)
    \/ \E t \in Tasks : LockGranted(t)
    \/ \E t \in Tasks : DisconnectCleanupDone(t)
    \/ \E t \in Tasks : DisconnectCloseDone(t)
    \/ \E k \in Keys : SubscribeCall(k)
    \/ SubscribeStreamDone
    \/ WatchdogStart
    \/ WatchdogStop
    \/ WatchdogStopReturn
    \/ MonCancelled
    \/ MonTick
    \/ MonPingDone
    \/ MonBackoffDone
    \/ \E t \in {"mon", "force"} : SettleDone(t)
    \/ ForceReconnect

SpecLive ==
    /\ Init
    /\ [][NextLive]_vars
    /\ WF_vars(MonStep)
    /\ \A t \in {"force", "app"} : WF_vars(CallerStep(t))
    /\ WF_vars(SubscribeStreamDone)

\* ------------------------------------------------------------------------
\* Specification of the request queue and its workers
\* ------------------------------------------------------------------------
NextQueue ==
    \/ \E cb \in {"none", "sync", "async"}, wait \in BOOLEAN : SubmitRequest(cb, wait)
    \/ PutResume
    \/ \E id \in RequestIds : PutTimeout(id)
    \/ \E id \in RequestIds : ResultTimeout(id)
    \/ WorkerGet
    \/ \E id \in RequestIds : WorkerProcessDone(id)
    \/ \E id \in RequestIds : WorkerCallbackDone(id)
    \/ WorkerCancelledIdle
    \/ \E id \in RequestIds : WorkerCancelledBusy(id)
    \/ QueueStart
    \/ QueueStop
    \/ QueueStopReturn

SpecQueue == Init /\ [][NextQueue]_vars

\* The request queue with a second task that calls start() while the first
\* one is inside stop().
NextQueueRace ==
    \/ \E cb \in {"none", "sync", "async"}, wait \in BOOLEAN : SubmitRequest(cb, wait)
    \/ PutResume
    \/ \E id \in RequestIds : PutTimeout(id)
    \/ \E id \in RequestIds : ResultTimeout(id)
    \/ WorkerGet
    \/ \E id \in RequestIds : WorkerProcessDone(id)
    \/ \E id \in RequestIds : WorkerCallbackDone(id)
    \/ WorkerCancelledIdle
    \/ \E id \in RequestIds : WorkerCancelledBusy(id)
    \/ WorkerGetTimeout
    \/ QueueStart
    \/ QueueStartOther
    \/ QueueStop
    \/ QueueStopReturn

SpecQueueRace == Init /\ [][NextQueueRace]_vars

\* The request queue with a pool that is never stopped.  The event loop runs
\* a worker whose queue.get() or client call can complete, and every client
\* call terminates; nothing is assumed of the callbacks, the timeouts or the
\* producers.
NextQueueLive ==
    \/ \E cb \in {"none", "sync", "async"}, wait \in BOOLEAN : SubmitRequest(cb, wait)
    \/ PutResume
    \/ \E id \in RequestIds : PutTimeout(id)
    \/ \E id \in RequestIds : ResultTimeout(id)
    \/ WorkerGet
    \/ \E id \in RequestIds : WorkerProcessDone(id)
    \/ \E id \in RequestIds : WorkerCallbackDone(id)
    \/ QueueStart

SpecQueueLive ==
    /\ Init
    /\ [][NextQueueLive]_vars
    /\ WF_vars(WorkerGet)
    /\ \A id \in RequestIds : WF_vars(WorkerProcessDone(id))

\* The same queue, never stopped, built from a configuration whose
\* request_queue_maxsize holds one Request or two.
InitFifo ==
    /\ InitClient
    /\ InitQueue
    /\ cfg \in {[DefaultConfig EXCEPT !.qmax = n] : n \in {QueueMaxSize, QueueMaxSize + 1}}
    /\ attempt = 0
    /\ delay = CalculateBackoffDelay(DefaultConfig, 0)

SpecFifo == InitFifo /\ [][NextQueueLive]_vars

\* The client of an application that connects, disconnects, subscribes and
\* unsubscribes, together with its candle dispatcher tasks; it starts
\* connected.  No watchdog runs, so no task is cancelled inside a client call.
InitCandles ==
    /\ InitQueue
    /\ InitBackoffIdle
    /\ state = "connected"
    /\ api = 1
    /\ lockOwner = NoTask
    /\ lockQ = <<>>
    /\ subscriptions = <<>>
    /\ candle_callbacks = {}
    /\ dispatchers = [k \in Keys |-> 0]
    /\ running = FALSE
    /\ consecutive_failures = 0
    /\ total_reconnects = 0
    /\ retry_count = 0
    /\ hookCalls = 0
    /\ pc = [t \in Tasks |-> IF t = "mon" THEN "none" ELSE "idle"]
    /\ todo = [t \in Tasks |-> <<>>]
    /\ obs = [task |-> "app", op |-> "connect", out |-> "ok", ret |-> TRUE]
    /\ calls = 0
    /\ faults = 0

NextCandles ==
    \/ \E k \in Keys : SubscribeCall(k)
    \/ SubscribeStreamDone
    \/ \E k \in Keys : UnsubscribeCall(k)
    \/ UnsubscribeStreamDone
    \/ \E k \in Keys : CandleDispatcherExit(k)
    \/ AppConnect
    \/ AppDisconnect
    \/ \E t \in Tasks : ConnectSessionDone(t)
    \/ \E t \in Tasks : DisconnectCleanupDone(t)
    \/ \E t \in Tasks : DisconnectCloseDone(t)

SpecCandles == InitCandles /\ [][NextCandles]_vars

\* The request queue with room for every Request that is submitted (no put
\* ever suspends), stopped and started again by one task, and producers that
\* do not wait for the Response.
InitRestart ==
    /\ InitClient
    /\ InitQueue
    /\ cfg = [DefaultConfig EXCEPT !.qmax = QueueMaxSize + 1]
    /\ attempt = 0
    /\ delay = CalculateBackoffDelay(DefaultConfig, 0)

NextQueueRestart ==
    \/ \E cb \in {"none", "sync"} : SubmitRequest(cb, FALSE)
    \/ WorkerGet
    \/ \E id \in RequestIds : WorkerProcessDone(id)
    \/ WorkerCancelledIdle
    \/ \E id \in RequestIds : WorkerCancelledBusy(id)
    \/ QueueStart
    \/ QueueStop
    \/ QueueStopReturn

SpecRestart == InitRestart /\ [][NextQueueRestart]_vars

\* ------------------------------------------------------------------------
\* Specification of the backoff computation: any configuration, attempts
\* 0, 1, 2, ... as _handle_disconnect counts them
\* ------------------------------------------------------------------------
InitBackoff ==
    /\ InitClient
    /\ InitQueue
    /\ cfg \in {c \in Configs : Constructible(c)}
    /\ attempt = 0
    /\ delay = CalculateBackoffDelay(cfg, 0)

NextAttempt ==
    /\ attempt < MaxAttempt
    /\ attempt' = attempt + 1
    /\ delay' = CalculateBackoffDelay(cfg, attempt + 1)
    /\ cfg' = cfg
    /\ UNCHANGED <<clientVars, wdVars, taskVars, queueVars>>

NextBackoff == NextAttempt

SpecBackoff == InitBackoff /\ [][NextBackoff]_vars


\* ========================================================================
\* Claims
\* ========================================================================

\* ---- C1 (SpecQueue) -----------------------------------------------------
\* C1: every Request accepted into the queue gets exactly one Response, also
\* under a concurrent stop(): a Request that is no longer in the queue and no
\* longer in the hands of a worker has had exactly one Response built and its
\* future, if it has one, is no longer pending; it is never answered twice.
C1_AcceptedRequestAnswered ==
    \A id \in Accepted :
        /\ req[id].built <= 1
        /\ req[id].cbCalls <= 1
        /\ req[id].st \in {"finished", "dropped"}
              => req[id].built = 1 /\ req[id].fut # "pending"

\* ---- C2 (Spec) ----------------------------------------------------------
WellFormedSteps ==
    { <<"disconnected", "connecting">>, <<"connecting", "connected">>,
      <<"connecting", "disconnected">>, <<"connected", "disconnected">> }

\* C2: under every interleaving of force_reconnect with the monitor's sequence
\* ConnectionState only ever takes the steps Disconnected -> Connecting,
\* Connecting -> Connected, Connecting -> Disconnected, and Connected ->
\* Disconnected, the last one by a disconnect() that returns.
C2_WellFormedTransitions ==
    [][ state' # state =>
          /\ <<state, state'>> \in WellFormedSteps
          /\ state = "connected" => obs'.op = "disconnect" ]_vars

\* A forced cycle and the monitor's sequence are both at their connect().
C2_Witness ==
    /\ pc["force"] = "conn_session"
    /\ pc["mon"] = "conn_lockwait"
    /\ state = "connecting"

\* ---- C3 (Spec) ----------------------------------------------------------
\* Between the return of its disconnect() and the return of its connect().
MidCycle(t) == pc[t] \in {"settle", "conn_lockwait", "conn_session"}

\* C3: at most one reconnection cycle is active at a time: the cycle of a
\* force_reconnect() and an attempt of the monitor's sequence are never both
\* between their disconnect and their connect.
C3_OneCycleAtATime == ~(MidCycle("mon") /\ MidCycle("force"))

\* ---- C4 (SpecLive) ------------------------------------------------------
\* The watchdog is running and its monitor task is alive.
WatchdogUp == running /\ pc["mon"] \notin {"none", "done"}

\* C4: if the watchdog is running and from some point on is never stopped,
\* then (the session failures of a behaviour being finitely many) the state
\* is Connected with consecutive_failures = 0 again and again, whatever
\* failures, disconnects and forced cycles happened before.
C4_EventuallyConnected ==
    (<>[]WatchdogUp) => []<>(state = "connected" /\ consecutive_failures = 0)

\* The monitor has reconnected after session failures.
C4_Witness ==
    /\ WatchdogUp
    /\ state = "connected"
    /\ consecutive_failures = 0
    /\ total_reconnects > 0
    /\ faults > 0
    /\ obs.task = "mon"

\* ---- C5 (Spec) ----------------------------------------------------------
\* Task t's connect() returns in this step from its session call.
ConnectReturns(t) ==
    pc[t] = "conn_session" /\ pc'[t] \notin {"conn_session", "done"}

\* C5: connect() entered with the state not Connected sets Connecting and
\* calls the session holding the lock; it returns true in Connected when the
\* session connect succeeded, false in Disconnected when it failed or raised.
C5_ConnectOutcome ==
    [][ \A t \in Tasks :
          /\ (pc[t] # "conn_session" /\ pc'[t] = "conn_session")
                => state # "connected" /\ state' = "connecting" /\ lockOwner' = t
          /\ ConnectReturns(t)
                => /\ state = "connecting"
                   /\ lockOwner = t
                   /\ obs'.task = t /\ obs'.op = "connect"
                   /\ \/ obs'.out = "ok" /\ obs'.ret /\ state' = "connected"
                      \/ /\ obs'.out \in {"fail", "raise"}
                         /\ ~obs'.ret
                         /\ state' = "disconnected" ]_vars

\* A connect() whose session call raised has returned false.
C5_Witness ==
    /\ obs.op = "connect"
    /\ obs.out = "raise"
    /\ ~obs.ret
    /\ state = "disconnected"

\* ---- C6 (Spec) ----------------------------------------------------------
\* Task t starts the body of connect() in this step (it has the lock).
ConnectBodyRuns(t) ==
    \/ pc[t] = "conn_lockwait" /\ LockGranted(t)
    \/ LockFree /\ t = "app" /\ AppConnect
    \/ LockFree /\ t \in {"mon", "force"} /\ SettleDone(t)

\* C6: connect() entered while Connected returns true at once: no session
\* call, ConnectionState and the session handle unchanged.
C6_ConnectIdempotent ==
    [][ \A t \in Tasks :
          (ConnectBodyRuns(t) /\ state = "connected")
             => /\ state' = state
                /\ api' = api
                /\ pc'[t] # "conn_session"
                /\ lockOwner' = NoTask
                /\ obs' = [task |-> t, op |-> "connect", out |-> "none",
                           ret |-> TRUE] ]_vars

\* The application's second connect() has returned without a session call.
C6_Witness ==
    /\ obs = [task |-> "app", op |-> "connect", out |-> "none", ret |-> TRUE]
    /\ state = "connected"
    /\ calls >= 2

\* ---- C7 / C8 (Spec) -----------------------------------------------------
\* Task t starts the body of disconnect() in this step (it has the lock).
DisconnectBodyRuns(t) ==
    \/ pc[t] = "disc_lockwait" /\ LockGranted(t)
    \/ LockFree /\ t = "app" /\ AppDisconnect
    \/ LockFree /\ t = "force" /\ ForceReconnect
    \/ LockFree /\ t = "mon" /\ running /\ MonBackoffDone

\* Task t's disconnect() returns in this step.
DisconnectReturns(t) ==
    \/ pc[t] \in {"disc_cleanup", "disc_close"}
          /\ pc'[t] \notin {"disc_cleanup", "disc_close", "done"}
    \/ DisconnectBodyRuns(t) /\ pc'[t] \notin {"disc_cleanup", "disc_close"}

\* C7: disconnect() returns with the state Disconnected, also when the session
\* close or the cleanup raised, and returns normally to its caller; entered
\* in Disconnected it changes nothing.
C7_DisconnectAlwaysDisconnected ==
    [][ \A t \in Tasks :
          /\ DisconnectReturns(t)
                => /\ state' = "disconnected"
                   /\ lockOwner' = NoTask
                   /\ obs'.task = t /\ obs'.op = "disconnect" /\ obs'.ret
                   /\ pc'[t] = IF t = "app" THEN "idle" ELSE "settle"
          /\ (DisconnectBodyRuns(t) /\ state = "disconnected")
                => UNCHANGED <<state, api, subscriptions, candle_callbacks>> ]_vars

\* A disconnect() whose session call raised has returned.
C7_Witness ==
    /\ obs.op = "disconnect"
    /\ obs.out = "raise"
    /\ state = "disconnected"

\* C8: when disconnect() returns after being entered in a state other than
\* Disconnected, the subscription map and the candle-callback map are empty.
C8_DisconnectReleasesSubscriptions ==
    [][ \A t \in Tasks :
          (DisconnectReturns(t) /\ state # "disconnected")
             => subscriptions' = <<>> /\ candle_callbacks' = {} ]_vars

\* ---- C9 (Spec) ----------------------------------------------------------
\* C9: the probe calls the session ping only when the state is Connected and
\* otherwise returns false at once; no step of a probe changes the state.
C9_ProbeFrame ==
    [][ /\ (pc["mon"] # "pinging" /\ pc'["mon"] = "pinging") => state = "connected"
        /\ (MonTick /\ running /\ state # "connected")
              => /\ pc'["mon"] # "pinging"
                 /\ obs' = [task |-> "mon", op |-> "probe", out |-> "none",
                            ret |-> FALSE]
        /\ (MonTick \/ MonPingDone) => state' = state /\ api' = api ]_vars

\* A probe has failed at once on a client that is not Connected.
C9_Witness ==
    /\ obs = [task |-> "mon", op |-> "probe", out |-> "none", ret |-> FALSE]
    /\ state # "connected"
    /\ consecutive_failures > 0

\* ---- C10 (SpecBackoff) --------------------------------------------------
\* C10: delay(a) = min(base * multiplier^a, max) for the zero-based attempt a;
\* with base 1, multiplier 2, max 300: delay(0) = 1, delay(1) = 2,
\* delay(5) = 32, delay(10) = 300.
C10_BackoffFormula ==
    LET n == cfg.base * (cfg.mnum ^ attempt)
        d == cfg.mden ^ attempt
        expected == IF n <= cfg.max * d THEN <<n, d>> ELSE <<cfg.max, 1>>
    IN /\ delay[1] * expected[2] = expected[1] * delay[2]
       /\ cfg = DefaultConfig =>
             /\ attempt = 0 => delay = <<1, 1>>
             /\ attempt = 1 => delay = <<2, 1>>
             /\ attempt = 5 => delay = <<32, 1>>
             /\ attempt = 10 => delay = <<300, 1>>

\* The capped delay of attempt 10 under the default configuration.
C10_Witness ==
    /\ cfg = DefaultConfig
    /\ attempt = 10
    /\ delay = <<300, 1>>

\* ---- C11 (SpecBackoff) --------------------------------------------------
\* C11: for every configuration the watchdog is built with, the delay never
\* exceeds reconnect_max_delay and does not decrease from one attempt to the
\* next.
C11_BackoffMonotoneCapped ==
    [][ /\ delay'[1] <= cfg'.max * delay'[2]
        /\ attempt' = attempt + 1 => delay[1] * delay'[2] <= delay'[1] * delay[2]
      ]_vars

\* ---- C12 (SpecBackoff) --------------------------------------------------
\* base_delay > 0, multiplier > 1 and max_delay >= base_delay.
BackoffContract(c) == c.base > 0 /\ c.mnum > c.mden /\ c.max >= c.base

\* C12: a configuration outside the contract is rejected at construction, so
\* no delay is ever computed from one.
C12_InvalidConfigRejected ==
    [][ attempt' = attempt + 1 => BackoffContract(cfg) ]_vars

\* ---- C13 (Spec) ---------------------------------------------------------
\* The monitor's probe succeeds in this step.
ProbeSucceeds == MonPingDone /\ obs'.ret

\* The connect() of task t's reconnection cycle returns true in this step.
CycleConnectTrue(t) ==
    /\ pc[t] \in {"settle", "conn_lockwait", "conn_session"}
    /\ pc'[t] \notin {"settle", "conn_lockwait", "conn_session", "done"}
    /\ obs' = [task |-> t, op |-> "connect", out |-> obs'.out, ret |-> TRUE]

\* C13: consecutive_failures is lowered only by a successful probe or a
\* successful reconnection (periodic or forced), each of which leaves it at
\* 0; every other change is an increment by one.
C13_ResetExactly ==
    [][ /\ consecutive_failures' # consecutive_failures
             => \/ consecutive_failures' = 0
                \/ consecutive_failures' = consecutive_failures + 1
        /\ consecutive_failures' < consecutive_failures
             => \/ ProbeSucceeds
                \/ \E t \in {"mon", "force"} : CycleConnectTrue(t)
        /\ ProbeSucceeds => consecutive_failures' = 0
        /\ \A t \in {"mon", "force"} :
             CycleConnectTrue(t) => consecutive_failures' = 0 ]_vars

\* The monitor's sequence has just reconnected and reset the counter.
C13_Witness ==
    /\ obs = [task |-> "mon", op |-> "connect", out |-> "ok", ret |-> TRUE]
    /\ consecutive_failures = 0
    /\ total_reconnects = 1
    /\ pc["mon"] = "ping_sleep"

\* ---- C14 (Spec) ---------------------------------------------------------
\* The monitor is inside _handle_disconnect.
InSequence ==
    pc["mon"] \in {"backoff_sleep", "disc_lockwait", "disc_cleanup", "disc_close",
                   "settle", "conn_lockwait", "conn_session"}

\* The monitor's probe fails in this step.
ProbeFails ==
    \/ MonTick /\ running /\ ~ProbeAllowed
    \/ MonPingDone /\ ~obs'.ret

\* C14 as stated: consecutive_failures counts the consecutive failed probes,
\* so it changes at probes only: a failed probe adds one and runs a
\* reconnection sequence, a successful probe sets 0, and between two probes
\* it keeps its value (after N failed ticks it is N; 1, 2, 0 for N = 2).
C14_CountsFailedProbes ==
    [][ /\ ProbeFails
             => consecutive_failures' = consecutive_failures + 1 /\ InSequence'
        /\ ProbeSucceeds => consecutive_failures' = 0
        /\ ~(ProbeFails \/ ProbeSucceeds)
             => consecutive_failures' = consecutive_failures ]_vars

\* C14 amended: a failed probe adds one and runs a reconnection sequence, a
\* successful probe sets 0, and between two probes only a reconnection that
\* succeeds changes the value, to 0; after N consecutive failed probes with
\* no successful reconnection since the first of them the value is N.
C14_CountsFailedProbesUntilReconnect ==
    [][ /\ ProbeFails
             => consecutive_failures' = consecutive_failures + 1 /\ InSequence'
        /\ ProbeSucceeds => consecutive_failures' = 0
        /\ ~(ProbeFails \/ ProbeSucceeds)
             => \/ consecutive_failures' = consecutive_failures
                \/ /\ consecutive_failures' = 0
                   /\ total_reconnects' = total_reconnects + 1 ]_vars

\* The second consecutive failed probe, no reconnection having succeeded.
C14_Witness ==
    /\ consecutive_failures = 2
    /\ total_reconnects = 0
    /\ retry_count = 0
    /\ pc["mon"] = "backoff_sleep"
    /\ obs = [task |-> "mon", op |-> "probe", out |-> "none", ret |-> FALSE]

\* ---- C15 (Spec) ---------------------------------------------------------
\* Line 144: the delay of the backoff sleep the sequence is in or enters.
SleepDelay == CalculateBackoffDelay(cfg, retry_count)

\* The connect() of the monitor's attempt returns false in this step.
AttemptFails ==
    /\ pc["mon"] \in {"settle", "conn_lockwait", "conn_session"}
    /\ pc'["mon"] \notin {"settle", "conn_lockwait", "conn_session", "done"}
    /\ obs'.task = "mon" /\ obs'.op = "connect" /\ ~obs'.ret

\* min(1 * 2^k, 300), the delay of attempt k under the default configuration.
DefaultDelay(k) == IF 2 ^ k <= 300 THEN <<2 ^ k, 1>> ELSE <<300, 1>>

\* C15: a reconnection sequence starts with attempt 0; every attempt k is made
\* after a sleep of delay(k) and only for k < reconnect_max_retries; an
\* attempt that fails leaves total_reconnects and the hook alone and is
\* followed by the sleep of attempt k + 1, or, after attempt
\* reconnect_max_retries - 1, by the return of the sequence to the monitor
\* loop: with connect always failing exactly reconnect_max_retries attempts.
C15_ExhaustsAfterMaxRetries ==
    [][ /\ ProbeFails => retry_count' = 0 /\ pc'["mon"] = "backoff_sleep"
        /\ pc'["mon"] = "backoff_sleep"
             => /\ retry_count' < reconnect_max_retries
                /\ SleepDelay' = DefaultDelay(retry_count')
        /\ (InSequence /\ pc["mon"] # "backoff_sleep" /\ pc'["mon"] = "backoff_sleep")
             => AttemptFails
        /\ (MonBackoffDone /\ running) => pc'["mon"] \in {"disc_lockwait",
                                              "disc_cleanup", "disc_close", "settle"}
        /\ AttemptFails
             => /\ retry_count' = retry_count + 1
                /\ UNCHANGED <<total_reconnects, hookCalls, consecutive_failures>>
                /\ pc'["mon"] = IF retry_count' < reconnect_max_retries
                                THEN "backoff_sleep" ELSE "ping_sleep" ]_vars

\* The sequence has returned after reconnect_max_retries failed attempts.
C15_Witness ==
    /\ running
    /\ pc["mon"] = "ping_sleep"
    /\ retry_count = reconnect_max_retries
    /\ total_reconnects = 0
    /\ hookCalls = 0
    /\ obs.task = "mon" /\ obs.op = "connect" /\ ~obs.ret

\* ---- C16 (Spec) ---------------------------------------------------------
\* The connect() of the forced cycle returns false in this step.
ForcedFails ==
    /\ pc["force"] \in {"settle", "conn_lockwait", "conn_session"}
    /\ pc'["force"] = "idle"
    /\ obs'.task = "force" /\ obs'.op = "connect" /\ ~obs'.ret

\* C16: the hook is invoked once for each time a periodic or forced cycle
\* brings the connection from not Connected to Connected, in the step in
\* which the cycle's connect() returns true and with the state Connected, and
\* never for an attempt that failed.
C16_HookOncePerReconnection ==
    [][ /\ hookCalls' # hookCalls
             => /\ hookCalls' = hookCalls + 1
                /\ state # "connected" /\ state' = "connected"
                /\ \E t \in {"mon", "force"} : CycleConnectTrue(t)
        /\ \A t \in {"mon", "force"} :
             (CycleConnectTrue(t) /\ state # "connected")
                => hookCalls' = hookCalls + 1
        /\ (AttemptFails \/ ForcedFails) => hookCalls' = hookCalls ]_vars

\* ---- C17 (Spec) ---------------------------------------------------------
\* How far force_reconnect() has got: 0 not running, 1..3 inside disconnect(),
\* 4 in the settle sleep, 5..6 inside connect().
ForcePhase(p) ==
    CASE p = "idle" -> 0
      [] p = "disc_lockwait" -> 1
      [] p = "disc_cleanup" -> 2
      [] p = "disc_close" -> 3
      [] p = "settle" -> 4
      [] p = "conn_lockwait" -> 5
      [] p = "conn_session" -> 6

\* C17: force_reconnect() calls disconnect(), then after the settle sleep
\* connect(), once each, and returns with the result of that connect(): when
\* it is true total_reconnects grows by one, consecutive_failures becomes 0
\* and the hook is invoked; when it is false all three are left unchanged.
C17_ForceReconnectOneCycle ==
    [][ /\ pc'["force"] # pc["force"]
             => \/ /\ ForcePhase(pc'["force"]) > ForcePhase(pc["force"])
                   /\ ForcePhase(pc["force"]) = 0 => ForceReconnect
                   /\ ForcePhase(pc["force"]) < 4 => ForcePhase(pc'["force"]) <= 4
                \/ /\ pc'["force"] = "idle"
                   /\ CycleConnectTrue("force") \/ ForcedFails
        /\ CycleConnectTrue("force")
             => /\ pc'["force"] = "idle"
                /\ total_reconnects' = total_reconnects + 1
                /\ consecutive_failures' = 0
                /\ hookCalls' = hookCalls + 1
        /\ ForcedFails
             => UNCHANGED <<total_reconnects, consecutive_failures, hookCalls>>
      ]_vars

\* A forced reconnection has succeeded and returned.
C17_Witness ==
    /\ pc["force"] = "idle"
    /\ obs = [task |-> "force", op |-> "connect", out |-> "ok", ret |-> TRUE]
    /\ total_reconnects = 1
    /\ hookCalls = 1
    /\ state = "connected"

\* ---- C18 (SpecLive) -----------------------------------------------------
\* C18: the monitor task ends only after stop(): whatever pings, connects and
\* disconnects failed and whether or not a sequence was exhausted, a monitor
\* that has ended means _running is false; and while the watchdog is not
\* stopped the monitor performs a tick again and again.
C18_OnlyStopEndsMonitor ==
    /\ [](pc["mon"] = "done" => ~running)
    /\ (<>[]WatchdogUp) => []<><<MonTick>>_vars

\* A probe is in flight after session failures and a reconnection.
C18_Witness ==
    /\ WatchdogUp
    /\ pc["mon"] = "pinging"
    /\ faults > 0
    /\ total_reconnects > 0

\* ---- C19 (SpecQueue) ----------------------------------------------------
\* C19: a submission without wait_for_response that is suspended in put()
\* because the queue is full can always time out; it ends either enqueued,
\* when a slot came free, or, on the timeout, with an error raised to its
\* caller, the Request then being in no queue; a rejected Request is never
\* submitted again.
C19_NoWaitSubmitRaises ==
    [][ \A id \in RequestIds :
          /\ req[id].st = "putting" => ENABLED PutTimeout(id)
          /\ (req[id].st = "putting" /\ req[id].fut = "none"
                 /\ req'[id].st # "putting")
                => \/ /\ ~QueueFull
                      /\ req'[id].st = "queued"
                      /\ req'[id].ret = "id"
                   \/ /\ req'[id].st = "rejected"
                      /\ req'[id].ret = "raised"
                      /\ id \notin Range(queue') \cup Range(putQ')
          /\ req[id].st = "rejected"
                => req'[id] = req[id] /\ id \notin Range(queue') \cup Range(putQ')
      ]_vars

\* A submission without wait has been rejected while the queue is full.
C19_Witness ==
    \E id \in RequestIds :
        /\ req[id].st = "rejected"
        /\ req[id].fut = "none"
        /\ req[id].ret = "raised"
        /\ QueueFull

\* ---- C20 (SpecQueue) ----------------------------------------------------
\* C20: a waiting submission whose Request was enqueued and whose future was
\* not resolved within the result-wait timeout returns a failed Response
\* with the error "timeout".
C20_ResultTimeoutResponse ==
    \A id \in Accepted : req[id].fut = "cancelled" => req[id].ret = "timeout"


\* ---- C21 (SpecQueue) ----------------------------------------------------
\* A worker builds a Response for Request id in this step.
Builds(id) == req'[id].built = req[id].built + 1

\* The client call behind the Response just built failed: it raised, or it
\* reported failure by returning None / False.
OperationFailed(id) == req'[id].op \in {"none", "raise"}

\* C21: when the operation of a Request fails (the client call raises or
\* reports failure), the Response the worker builds has success false and
\* failed_count, not processed_count, is incremented.
C21_FailedOperationCounted ==
    [][ \A id \in RequestIds :
          (Builds(id) /\ OperationFailed(id))
             => /\ req'[id].success = "false"
                /\ failed_count' = failed_count + 1
                /\ processed_count' = processed_count
      ]_vars

\* ---- C22 (SpecQueue) ----------------------------------------------------
\* The callback of Request id ends in this step by raising an exception.
CallbackRaises(id) == req[id].cbr = "none" /\ req'[id].cbr = "raise"

\* C22: an exception raised by a callback is contained.  In the step in which
\* the callback raises, the counters change only by the Response built in that
\* same step (not at all when it was built earlier), a pending result-slot is
\* resolved with the Response, the Request is finished and the worker is not
\* terminated: while the pool runs it waits for the next Request.
C22_CallbackExceptionContained ==
    [][ \A id \in RequestIds :
          CallbackRaises(id)
             => /\ processed_count' + failed_count'
                     = processed_count + failed_count + (req'[id].built - req[id].built)
                /\ processed_count' - processed_count
                     = (IF Builds(id) /\ req'[id].success = "true" THEN 1 ELSE 0)
                /\ req[id].fut = "pending"
                     => req'[id].fut = "done" /\ req'[id].ret = "response"
                /\ req'[id].st = "finished"
                /\ queue_running => ended' = ended /\ idle' >= idle
      ]_vars

\* A worker has resolved the result-slot of a Request whose callback raised,
\* and is waiting for the next Request.
C22_Witness ==
    \E id \in RequestIds :
        /\ req[id].cbr = "raise"
        /\ req[id].fut = "done"
        /\ req[id].st = "finished"
        /\ queue_running
        /\ idle = workers

\* ---- C23 (SpecQueueLive) ------------------------------------------------
\* Every accepted Request has been taken from the queue and answered.
AllAnswered ==
    /\ Len(queue) = 0
    /\ processed_count + failed_count = Cardinality(Accepted)

Dequeued(id) == req[id].st = "queued" /\ req'[id].st # "queued"

\* C24: the Requests of one producer leave the queue in the order the
\* producer submitted them.  A producer submits its next Request after the
\* call for the previous one has returned, so: when a worker dequeues a
\* Request, every Request whose submission had returned before this one was
\* submitted has left the queue already, and a Request whose submission
\* returned without enqueuing it is never enqueued later.
C24_ProducerOrderKept ==
    [][ \A id \in RequestIds :
          /\ Dequeued(id) => req[id].after = {}
          /\ (req[id].st = "rejected") => (req'[id].st = "rejected")
          /\ (req[id].st = "unused" /\ req'[id].st # "unused")
                => \A i \in Returned :
                      \/ i \in req'[id].after
                      \/ req[i].st \in {"rejected", "process", "callback", "finished",
                                        "dropped"}
      ]_vars

\* Two Requests of one producer waited in the queue together: the second was
\* submitted after the call for the first had returned, and only the first
\* has been taken by a worker.
C24_Witness ==
    \E i, j \in RequestIds :
        /\ i < j
        /\ req[i].st \in {"process", "callback", "finished"}
        /\ req[i].ret = "id"
        /\ req[j].st = "queued"
        /\ req[j].after = {}
        /\ queue = <<j>>
        /\ cfg.qmax > 1

\* ---- C25 (SpecQueue) ----------------------------------------------------
\* The worker tasks that are alive.
AliveWorkers == idle + orphans + Cardinality(Held)

\* C25: start() and stop() of the pool are idempotent.  While the pool runs
\* its worker set is exactly the W workers of the start() that set it running,
\* however often start() is called; a pool that is stopped, with no stop() in
\* progress, has no worker and calls on it leave it so; a stop() on a running
\* pool clears is_running and cancels every worker, returns only when all of
\* them have ended, and leaves the worker set empty with is_running false.
C25_StartStopIdempotent ==
    /\ [](queue_running => workers = num_workers /\ AliveWorkers = num_workers)
    /\ []((~queue_running /\ ctl = "idle") => workers = 0 /\ AliveWorkers = 0)
    /\ [][ /\ (queue_running /\ ~queue_running')
                => /\ ctl' = "stop_wait"
                   /\ \A id \in Held : Cancelled(id)'
                   /\ workers' = workers
           /\ (ctl = "stop_wait" /\ ctl' = "idle")
                => /\ ended = workers
                   /\ AliveWorkers = 0
                   /\ workers' = 0
                   /\ ~queue_running'
           /\ (workers' # workers)
                => \/ ~queue_running /\ queue_running' /\ workers = 0
                   \/ ctl = "stop_wait" /\ ctl' = "idle"
      ]_vars

\* stop() has returned on a pool that had been running and busy: a worker
\* was cancelled in its client call, none is left and is_running is false.
C25_Witness ==
    /\ ~queue_running
    /\ ctl = "idle"
    /\ workers = 0
    /\ AliveWorkers = 0
    /\ \E id \in RequestIds : req[id].st = "dropped"
    /\ \E id \in RequestIds : req[id].st = "finished"

\* ---- C26 (SpecQueueRace) ------------------------------------------------
\* A call of AsyncRequestQueue.stop() that found the pool running returns in
\* this step.
QueueStopReturns ==
    \/ ctl = "stop_wait" /\ ctl' = "idle"
    \/ ctl = "idle" /\ ctl' = "idle" /\ queue_running /\ ~queue_running'

\* A call of ConnectionWatchdog.stop() that found the watchdog running
\* returns in this step.
WatchdogStopReturns == pc["app"] = "stop_wait" /\ pc'["app"] = "idle"

\* The monitor task is not alive.
MonitorEnded == pc["mon"] \in {"none", "done"}

\* C26: once stop() has returned, none of the component's tasks is alive: no
\* worker task of the pool, and no monitor task of the watchdog, which while
\* it stays stopped makes no disconnect or connect call and invokes no hook.
C26_StopLeavesNoTask ==
    [][ /\ QueueStopReturns => AliveWorkers' = 0
        /\ WatchdogStopReturns => MonitorEnded'
        /\ (MonitorEnded /\ ~running /\ ~running')
              => /\ MonitorEnded'
                 /\ hookCalls' # hookCalls => pc'["force"] # pc["force"]
                 /\ obs'.task = "mon" => obs' = obs
      ]_vars

\* ---- C27 (Spec) ---------------------------------------------------------
\* Task t is inside the body of connect() or disconnect(), suspended in a
\* session call.
InBody(t) == pc[t] \in {"conn_session", "disc_cleanup", "disc_close"}

\* C27: at most one task is executing the body of connect() or disconnect()
\* at any time: a task inside a body holds the connection lock, and every
\* other caller is waiting for it.
C27_OneTaskInBody ==
    /\ \A t1, t2 \in Tasks : (InBody(t1) /\ InBody(t2)) => t1 = t2
    /\ \A t \in Tasks : InBody(t) => (lockOwner = t /\ t \notin Range(lockQ))
    /\ \A t \in Range(lockQ) : pc[t] \in {"conn_lockwait", "disc_lockwait"}

\* The monitor is inside a body while force_reconnect() and the application
\* both wait for the lock.
C27_Witness ==
    /\ InBody("mon")
    /\ Range(lockQ) = {"force", "app"}

\* ---- C28 (SpecQueue) ----------------------------------------------------
\* The Responses the workers have built so far, for the Requests 1..n.
RECURSIVE BuiltUpTo(_)
BuiltUpTo(n) == IF n = 0 THEN 0 ELSE req[n].built + BuiltUpTo(n - 1)

ResponsesBuilt == BuiltUpTo(MaxRequests)

\* C28: a Response is built at most once for a Request; the step that builds
\* it adds one to exactly one counter, processed_count if and only if the
\* Response's success flag is true; no other step changes a counter, so the
\* counters never decrease; and processed_count + failed_count is the number
\* of Responses built so far.
C28_CountersMatchResponses ==
    /\ [](processed_count + failed_count = ResponsesBuilt)
    /\ [](\A id \in RequestIds : req[id].built <= 1)
    /\ [][ /\ \A id \in RequestIds :
                Builds(id)
                   => IF req'[id].success = "true"
                      THEN /\ processed_count' = processed_count + 1
                           /\ failed_count' = failed_count
                      ELSE /\ processed_count' = processed_count
                           /\ failed_count' = failed_count + 1
           /\ processed_count' >= processed_count
           /\ failed_count' >= failed_count
           /\ (\A id \in RequestIds : ~Builds(id))
                => /\ processed_count' = processed_count
                   /\ failed_count' = failed_count
      ]_vars

\* Every Request has a Response, successful ones and failed ones among them.
C28_Witness ==
    /\ ResponsesBuilt = MaxRequests
    /\ processed_count > 0
    /\ failed_count > 0
    /\ \E id \in RequestIds : req[id].success = "false"

\* ---- C29 (Spec) ---------------------------------------------------------
\* The monitor calls _check_connection in this step.
Probes ==
    \/ ProbeFails
    \/ ProbeSucceeds
    \/ pc["mon"] # "pinging" /\ pc'["mon"] = "pinging"

\* The monitor's reconnection sequence returns to the loop in this step: its
\* connect() returned true, or its last attempt failed.
SequenceReturns ==
    \/ CycleConnectTrue("mon")
    \/ AttemptFails /\ retry_count' = reconnect_max_retries

\* C29: the monitor never probes while a reconnection sequence it started is
\* in progress: a probe is made from the ping-interval sleep only, no step
\* between the start of the sequence and its return is a probe, and the
\* ping-interval sleep is entered from within a sequence only by its return.
C29_NoProbeDuringSequence ==
    [][ /\ (pc["mon"] # "pinging" /\ pc'["mon"] = "pinging") => pc["mon"] = "ping_sleep"
        /\ InSequence => ~Probes
        /\ (InSequence /\ obs'.op = "probe") => obs' = obs
        /\ (InSequence /\ pc'["mon"] = "ping_sleep") => SequenceReturns
        /\ (InSequence /\ ~InSequence')
              => \/ pc'["mon"] = "ping_sleep"
                 \/ pc'["mon"] = "done"
      ]_vars

\* The monitor is in its ping-interval sleep again after a sequence that
\* reconnected at its second attempt or later.
C29_Witness ==
    /\ running
    /\ pc["mon"] = "ping_sleep"
    /\ retry_count > 0
    /\ total_reconnects > 0
    /\ obs = [task |-> "mon", op |-> "connect", out |-> obs.out, ret |-> TRUE]

\* ---- C30 (Spec) ---------------------------------------------------------
\* The monitor's sequence ends in exhaustion in this step: its last attempt
\* has failed.
Exhausts == AttemptFails /\ retry_count' = reconnect_max_retries

\* C30: the exhaustion of a sequence leaves consecutive_failures as it is and
\* returns to the ping-interval sleep; the next failing tick after it adds
\* one to consecutive_failures and starts a fresh sequence whose attempt
\* counter is 0 again and whose first sleep is delay(0).
C30_FreshSequenceAfterExhaustion ==
    [][ /\ Exhausts
             => /\ consecutive_failures' = consecutive_failures
                /\ pc'["mon"] = "ping_sleep"
        /\ (ProbeFails /\ retry_count = reconnect_max_retries)
             => /\ consecutive_failures' = consecutive_failures + 1
                /\ retry_count' = 0
                /\ pc'["mon"] = "backoff_sleep"
                /\ SleepDelay' = DefaultDelay(0)
      ]_vars

\* With nothing but the watchdog running, the tick after an exhausted
\* sequence has failed: consecutive_failures is 2 and the monitor is in the
\* first backoff sleep of a new sequence.
C30_Witness ==
    /\ running
    /\ calls = 1
    /\ faults = reconnect_max_retries
    /\ total_reconnects = 0
    /\ consecutive_failures = 2
    /\ retry_count = 0
    /\ pc["mon"] = "backoff_sleep"

\* ---- C31 (SpecHook) -----------------------------------------------------
\* The on_reconnect hook is called in this step and raises.
HookRaises == hookCalls' = hookCalls + 1 /\ cfg.on_reconnect = "raise"

\* C31: an exception raised by the on_reconnect hook does not change the
\* outcome of the reconnection: total_reconnects is incremented,
\* consecutive_failures is 0, the state is Connected, the monitor's sequence
\* ends without a further attempt and force_reconnect() returns true.
C31_HookExceptionContained ==
    [][ HookRaises
          => /\ total_reconnects' = total_reconnects + 1
             /\ consecutive_failures' = 0
             /\ state' = "connected"
             /\ retry_count' = retry_count
             /\ CycleConnectTrue("mon") \/ CycleConnectTrue("force")
             /\ CycleConnectTrue("mon") => pc'["mon"] = MonLoopTop
             /\ CycleConnectTrue("force")
                  => /\ pc'["force"] = "idle"
                     /\ obs'.task = "force" /\ obs'.op = "connect" /\ obs'.ret
      ]_vars

\* Both the monitor's sequence and a force_reconnect() have reconnected with
\* a hook that raised each time.
C31_Witness ==
    /\ cfg.on_reconnect = "raise"
    /\ hookCalls = 2
    /\ total_reconnects = 2
    /\ consecutive_failures = 0
    /\ state = "connected"
    /\ pc["mon"] = "ping_sleep"
    /\ pc["force"] = "idle"


\* ------------------------------------------------------------------------
\* C32: while the pool is running and no stop() is under way, all
\* num_workers workers are alive (waiting in queue.get() or busy with a
\* Request), whatever the Requests processed so far did: a failed operation
\* or unknown request kind, a raising callback, a result slot that was already
\* cancelled when the worker came to resolve it.
\* ------------------------------------------------------------------------
SlotAlreadyCompleted(id) == req[id].st = "finished" /\ req[id].fut = "cancelled"

C32_WorkersSurviveFailures ==
    (queue_running /\ ctl = "idle") => AliveWorkers = num_workers /\ ended = 0

C32_Witness ==
    /\ queue_running /\ ctl = "idle"
    /\ idle = num_workers
    /\ failed_count = MaxRequests
    /\ \E id \in RequestIds : req[id].st = "finished" /\ req[id].cbr = "raise"
    /\ \E id \in RequestIds : SlotAlreadyCompleted(id) /\ req[id].op = "raise"


\* ------------------------------------------------------------------------
\* C33 (SpecFifo): the step in which the submitter's wait for the result times out
\* changes nothing but the result slot and what submit_request returns: the
\* Request stays where it is (in the queue or with its worker).  Afterwards
\* the worker processes it like any other: the Response it builds is counted
\* in exactly one counter and passed to the callback, and when the worker
\* finishes the Request the cancelled slot is left as it is and the worker
\* goes on (it waits in queue.get() again while the pool is running).
\* ------------------------------------------------------------------------
TimesOut(id) == req[id].fut = "pending" /\ req'[id].fut = "cancelled"

TimedOut(id) == req[id].fut = "cancelled"

Finishes(id) == req[id].st # "finished" /\ req'[id].st = "finished"

C33_ResultTimeoutLeavesProcessing ==
    [][ \A id \in RequestIds :
          /\ TimesOut(id)
               => /\ req' = [req EXCEPT ![id].fut = "cancelled", ![id].ret = req'[id].ret]
                  /\ UNCHANGED <<queue, putQ, queue_running, workers, idle, ended, orphans,
                                 processed_count, failed_count>>
          /\ TimedOut(id)
               => /\ req'[id].fut = "cancelled"
                  /\ req'[id].ret = req[id].ret
                  /\ Builds(id)
                       => /\ processed_count' + failed_count'
                               = processed_count + failed_count + 1
                          /\ req[id].cb # "none" => req'[id].cbCalls = req[id].cbCalls + 1
                  /\ Finishes(id)
                       => /\ req'[id].built = 1
                          /\ req'[id].cbCalls = IF req[id].cb = "none" THEN 0 ELSE 1
                          /\ AliveWorkers' = IF queue_running THEN AliveWorkers
                                             ELSE AliveWorkers - 1
      ]_vars

C33_Witness ==
    \E id \in RequestIds :
        /\ TimedOut(id)
        /\ req[id].st = "finished"
        /\ req[id].cb = "async"
        /\ req[id].cbCalls = 1
        /\ req[id].built = 1
        /\ processed_count + failed_count >= 1
        /\ queue_running /\ idle = num_workers


\* ------------------------------------------------------------------------
\* C34: ConnectionState is Connecting only while some task is inside
\* connect(), owning the connection lock and suspended in the session
\* connect; otherwise it is Connected or Disconnected.  Reconnecting is never
\* taken.
\* ------------------------------------------------------------------------
ConnectExecuting == lockOwner # NoTask /\ pc[lockOwner] = "conn_session"

C34_ConnectingOnlyInsideConnect ==
    /\ state \in {"connected", "disconnected", "connecting"}
    /\ state = "connecting" => ConnectExecuting


\* ------------------------------------------------------------------------
\* C35: a submit_request call that ended with the queue-full outcome (it
\* raised the enqueue timeout, or returned the failed Response whose error is
\* "Queue full") has not enqueued its Request: the Request is in no queue and
\* with no worker, no Response was built for it and its callback was not
\* called.
\* ------------------------------------------------------------------------
QueueFullOutcome(id) == req[id].ret \in {"raised", "Queue full"}

C35_QueueFullMeansNotEnqueued ==
    \A id \in RequestIds :
        QueueFullOutcome(id)
            => /\ req[id].st = "rejected"
               /\ id \notin Range(queue) \cup Range(putQ)
               /\ req[id].built = 0
               /\ req[id].cbCalls = 0


\* ------------------------------------------------------------------------
\* C36 (SpecQueueRace): whenever no start() or stop() call is in progress,
\* the number of live worker tasks is the size of the tracked worker list,
\* which is num_workers if the pool is running and 0 otherwise -- under every
\* interleaving of start() and stop(), a start() during the wait of a stop()
\* included.
\* ------------------------------------------------------------------------
NoControlCall == ctl = "idle"

C36_LiveWorkersAreTracked ==
    NoControlCall
        => /\ AliveWorkers = workers
           /\ workers = IF queue_running THEN num_workers ELSE 0


\* ------------------------------------------------------------------------
\* C37 (SpecRestart): stop() and start() do not touch the queue.  The steps
\* of a stop() (clearing is_running, the cancellation of each worker, its
\* return) and of a start() leave the queued Requests where they are, in
\* their order; the queue only ever changes by an append at its tail or by a
\* worker taking its head; so a Request queued at the
\* return of stop() is taken, after a later start(), before every Request that
\* was submitted behind it, and every Request accepted and not yet taken is
\* in the queue exactly once.
\* ------------------------------------------------------------------------
ControlStep ==
    \/ ctl' # ctl
    \/ queue_running' # queue_running
    \/ ended' # ended

Waiting == {id \in RequestIds : req[id].st = "queued"}

C37_QueueSurvivesRestart ==
    /\ [](/\ Range(queue) = Waiting
          /\ Len(queue) = Cardinality(Waiting))
    /\ [][ /\ ControlStep => queue' = queue /\ putQ' = putQ
           /\ queue' # queue
                => \/ \E id \in RequestIds \ Range(queue) : queue' = Append(queue, id)
                   \/ queue' = Tail(queue)
           /\ \A id \in RequestIds :
                Dequeued(id) => /\ id = Head(queue)
                                /\ req[id].after = {}
      ]_vars

\* stop() has cancelled every worker and is about to return with two Requests
\* in the queue, the second submitted behind the first.
C37_Witness ==
    /\ ctl = "stop_wait"
    /\ ended = num_workers
    /\ Len(queue) = 2
    /\ queue[1] \in req[queue[2]].after


\* ------------------------------------------------------------------------
\* C38: when the backoff sleep of the monitor's sequence ends, the sequence
\* calls disconnect() only if the state is not Connected: a connection that
\* force_reconnect() established during the sleep is left alone.
\* ------------------------------------------------------------------------
MonCallsDisconnect ==
    /\ pc["mon"] = "backoff_sleep"
    /\ pc'["mon"] \in {"disc_lockwait", "disc_cleanup", "disc_close", "settle"}

\* The last client call that returned is a connect() of force_reconnect(), and
\* the state is Connected.
ForceConnected ==
    state = "connected" /\ obs.task = "force" /\ obs.op = "connect" /\ obs.ret

C38_HealthyConnectionKept ==
    [][ MonCallsDisconnect => ~ForceConnected ]_vars


\* ------------------------------------------------------------------------
\* C39 (SpecCandles): for every subscription key at most one candle
\* dispatcher task is alive at any time, under any sequence of
\* subscribe_candles, unsubscribe_candles, disconnect and connect calls.
\* ------------------------------------------------------------------------
C39_OneDispatcherPerKey == \A k \in Keys : dispatchers[k] <= 1

====
